---- MODULE Spec2Model ----
(***************************************************************************)
(* Model of the PUBLIC EXECUTION Checker (streamlit_app.py): the handler   *)
(* process_file, the SQL text built by generate_query, evaluated with the  *)
(* SQL semantics of its two common table expressions and its final SELECT, *)
(* and the st.cache_data cache in front of run_query.                      *)
(*                                                                         *)
(* Text that the code inspects character by character (identifiers that    *)
(* are stripped, the territory list matched with LIKE) is a tuple of       *)
(* one-character strings.  Text that is only compared for equality is a    *)
(* plain string.  Dates are whole numbers; the year of a date is the       *)
(* number itself.                                                          *)
(***************************************************************************)
EXTENDS Integers, Sequences, FiniteSets, TLC

VARIABLES
    rights,                 \* rows of RPT_PRODUCT_COMPONENT_RIGHT
    meta,                   \* the descriptive tables read by BASE_PRODUCT
    today,                  \* CURRENT_DATE() of the warehouse
    df,                     \* the ISRC column of the uploaded / pasted data
    selected_country_code,  \* the code chosen in the country selector
    cache,                  \* st.cache_data of run_query: query -> DataFrame
    results_df,             \* the rows shown by the last process_file
    status,                 \* what the last process_file rendered
    clicks                  \* number of "Process" clicks so far

vars == <<rights, meta, today, df, selected_country_code, cache, results_df,
          status, clicks>>

----------------------------------------------------------------------------
(* Bounds of the exploration *)

MaxGrants == 2
MaxDay == 2
MaxClicks == 2

----------------------------------------------------------------------------
(* SQL NULL / Python None *)

NULL == -1
NULL_TEXT == "<NULL>"

Range(s) == {s[i] : i \in DOMAIN s}

----------------------------------------------------------------------------
(* Text helpers *)

\* str.strip(): leading and trailing whitespace removed
RECURSIVE LStrip(_)
LStrip(s) == IF s # <<>> /\ Head(s) = " " THEN LStrip(Tail(s)) ELSE s

RECURSIVE RStrip(_)
RStrip(s) ==
    IF s # <<>> /\ s[Len(s)] = " " THEN RStrip(SubSeq(s, 1, Len(s) - 1)) ELSE s

strip(s) == RStrip(LStrip(s))

\* Series.unique(): the values in order of first appearance
RECURSIVE unique(_)
unique(s) ==
    IF s = <<>> THEN <<>>
    ELSE LET r == unique(SubSeq(s, 1, Len(s) - 1))
             x == s[Len(s)]
         IN  IF x \in Range(r) THEN r ELSE Append(r, x)

\* sep.join(parts)
RECURSIVE join(_, _)
join(sep, parts) ==
    IF parts = <<>> THEN <<>>
    ELSE IF Len(parts) = 1 THEN parts[1]
    ELSE parts[1] \o sep \o join(sep, Tail(parts))

\* the pieces of s between occurrences of sep
RECURSIVE SplitFrom(_, _, _)
SplitFrom(s, sep, acc) ==
    IF s = <<>> THEN <<acc>>
    ELSE IF Len(s) >= Len(sep) /\ SubSeq(s, 1, Len(sep)) = sep
         THEN <<acc>> \o SplitFrom(SubSeq(s, Len(sep) + 1, Len(s)), sep, <<>>)
         ELSE SplitFrom(Tail(s), sep, Append(acc, Head(s)))

Split(s, sep) == SplitFrom(s, sep, <<>>)

\* column LIKE '%pat%' for a pattern without wildcard characters
Like(str, pat) ==
    \E i \in 1..(Len(str) - Len(pat) + 1) :
        SubSeq(str, i, i + Len(pat) - 1) = pat

\* code points of the characters that occur in territory lists
CharCode(c) ==
    CASE c = "," -> 44
      [] c = "A" -> 65
      [] c = "B" -> 66
      [] c = "D" -> 68
      [] c = "E" -> 69
      [] c = "G" -> 71
      [] c = "S" -> 83
      [] c = "U" -> 85
      [] OTHER   -> 127

\* binary string order, as MIN() over a VARCHAR column uses
RECURSIVE StrLess(_, _)
StrLess(a, b) ==
    IF b = <<>> THEN FALSE
    ELSE IF a = <<>> THEN TRUE
    ELSE IF CharCode(Head(a)) # CharCode(Head(b))
         THEN CharCode(Head(a)) < CharCode(Head(b))
         ELSE StrLess(Tail(a), Tail(b))

MinStr(S) == CHOOSE x \in S : \A y \in S : y = x \/ StrLess(x, y)

----------------------------------------------------------------------------
(* The warehouse tables.  RPT_PRODUCT_COMPONENT and RPT_TERRITORY are      *)
(* dimension tables that stay fixed; the rights rows and the descriptive   *)
(* tables are drawn from the universes below.                              *)

ISRC_A == <<"A">>
ISRC_B == <<"B">>

US == <<"U", "S">>
GB == <<"G", "B">>
AUS == <<"A", "U", "S">>

CountryCodes == {US, GB}

RPT_PRODUCT_COMPONENT ==
    { [ID |-> 1, GAID |-> ISRC_A], [ID |-> 2, GAID |-> ISRC_B] }

\* COUNTRY_LIST_SORTED is the delimited list of the territory's codes
RPT_TERRITORY ==
    { [TERRITORY_ID |-> 1, COUNTRY_LIST_SORTED |-> join(<<",">>, <<AUS>>)],
      [TERRITORY_ID |-> 2, COUNTRY_LIST_SORTED |-> join(<<",">>, <<GB, US>>)] }

RightTypes == {"Master", "Distribution", "Publishing", "Other"}

\* (EFFECTIVE_FROM_DATE, EFFECTIVE_TO_DATE) of a grant
Periods == { <<1, NULL>>, <<2, NULL>>, <<1, 2>> }

Right(pcid, type, from, to, deleted, terr) ==
    [PRODUCT_COMPONENT_ID |-> pcid, RIGHT_TYPE |-> type,
     EFFECTIVE_FROM_DATE |-> from, EFFECTIVE_TO_DATE |-> to,
     IS_DELETED |-> deleted, TERRITORY_ID |-> terr]

\* the rows RPT_PRODUCT_COMPONENT_RIGHT may hold.  Track A: live grants of
\* every type, period and territory, and deleted grants of every type and
\* territory with the open period; track B: two plain grants, one of them
\* with an end date beyond the range of pandas timestamps
GrantUniverse ==
    { Right(1, ty, p[1], p[2], "N", t) :
        ty \in RightTypes, p \in Periods, t \in {1, 2} }
    \cup { Right(1, ty, 1, NULL, "Y", t) : ty \in RightTypes, t \in {1, 2} }
    \cup { Right(2, "Master", 1, 9999, "N", 2),
           Right(2, "Distribution", 1, NULL, "N", 2) }

RECURSIVE SubsetsUpTo(_, _)
SubsetsUpTo(S, n) ==
    IF n = 0 THEN {{}}
    ELSE LET P == SubsetsUpTo(S, n - 1)
         IN  P \cup { p \cup {x} : p \in P, x \in S }

Product(key, isrc) ==
    [product_key |-> key, product_id |-> isrc, product_id_type |-> "ISRC",
     artist_display_name |-> "artist", product_title |-> "title",
     wmi_imprint_desc |-> "WMI"]

Meta(products, facts, owners, credits, assets) ==
    [DIM_PRODUCT |-> products, FACT_AUDIO_STREAMING_AGG_YEARLY |-> facts,
     DIM_MARKETING_OWNER |-> owners, RPT_ASSET_CREDIT |-> credits,
     RPT_ASSET |-> assets]

Owners ==
    { [marketing_owner_key |-> 1, marketing_owner_name |-> "WMI"],
      [marketing_owner_key |-> 2, marketing_owner_name |-> "ADA"] }

Assets ==
    { [ISRC |-> ISRC_A, P_CREDIT |-> "p", WW_REPERTOIRE_OWNER |-> "w"] }

FactB == [product_key |-> 2, marketing_owner_key |-> 1]
CreditB == [asset_id |-> 2, text |-> "c1"]

\* track A fully described, one credit text
MetaFull ==
    Meta({Product(1, ISRC_A), Product(2, ISRC_B)},
         {[product_key |-> 1, marketing_owner_key |-> 1], FactB},
         Owners, {[asset_id |-> 1, text |-> "c1"], CreditB}, Assets)

\* no DIM_PRODUCT row for track A
MetaNoProduct ==
    Meta({Product(2, ISRC_B)}, {FactB}, Owners, {CreditB}, Assets)

\* the owner of track A is not named like its imprint
MetaOtherOwner ==
    Meta({Product(1, ISRC_A), Product(2, ISRC_B)},
         {[product_key |-> 1, marketing_owner_key |-> 2], FactB},
         Owners, {[asset_id |-> 1, text |-> "c1"], CreditB}, Assets)

\* two credit texts for track A
MetaTwoCredits ==
    Meta({Product(1, ISRC_A), Product(2, ISRC_B)},
         {[product_key |-> 1, marketing_owner_key |-> 1], FactB},
         Owners,
         {[asset_id |-> 1, text |-> "c1"], [asset_id |-> 1, text |-> "c2"],
          CreditB},
         Assets)

MetaSnapshots == {MetaFull, MetaNoProduct, MetaOtherOwner, MetaTwoCredits}

\* the ISRC column of the uploaded data: surrounding whitespace, a blank,
\* a duplicate; and a column of blanks only
Uploads ==
    { << <<" ", "A", " ">>, <<"B">>, <<>>, <<"A">> >>,
      << <<>>, <<" ">> >> }

----------------------------------------------------------------------------
(* generate_query: the text of the query is determined by the two values   *)
(* interpolated into it                                                    *)

clean_isrcs(isrc_list) ==
    SelectSeq([i \in DOMAIN isrc_list |-> strip(isrc_list[i])],
              LAMBDA x : x # <<>>)

generate_query(isrc_list, country_code) ==
    [isrc_values |-> join(<<"'", ",", "'">>, clean_isrcs(isrc_list)),
     country_code |-> country_code]

\* the string literals of  IN ('{isrc_values}')
InList(q) == Range(Split(q.isrc_values, <<"'", ",", "'">>))

----------------------------------------------------------------------------
(* BASE_PRODUCT *)

\* LEFT JOIN: the matching rows, or one all-NULL row when none matches
LeftJoin(matching, nullRow) == IF matching = {} THEN {nullRow} ELSE matching

NullFact == [product_key |-> NULL, marketing_owner_key |-> NULL]
NullOwner == [marketing_owner_key |-> NULL, marketing_owner_name |-> NULL_TEXT]
NullCredit == [asset_id |-> NULL, text |-> NULL_TEXT]
NullAsset ==
    [ISRC |-> <<>>, P_CREDIT |-> NULL_TEXT, WW_REPERTOIRE_OWNER |-> NULL_TEXT]

\* The join with RPT_ASSET_COMPANY_RELATIONSHIP selects no column and only
\* repeats rows that SELECT DISTINCT merges again, so it has no table here.
BASE_PRODUCT(q, m) ==
    LET Facts(p) ==
            LeftJoin({x \in m.FACT_AUDIO_STREAMING_AGG_YEARLY :
                         x.product_key = p.product_key}, NullFact)
        OwnersOf(f) ==
            LeftJoin({o \in m.DIM_MARKETING_OWNER :
                         f.marketing_owner_key # NULL
                         /\ o.marketing_owner_key = f.marketing_owner_key},
                     NullOwner)
        Credits(f) ==
            LeftJoin({c \in m.RPT_ASSET_CREDIT :
                         f.product_key # NULL /\ c.asset_id = f.product_key},
                     NullCredit)
        AssetsOf(p) ==
            LeftJoin({a \in m.RPT_ASSET : a.ISRC = p.product_id}, NullAsset)
        Where(p, owner) ==
            /\ p.product_id_type = "ISRC"
            /\ p.product_id \in InList(q)
            /\ owner.marketing_owner_name # NULL_TEXT
            /\ p.wmi_imprint_desc = owner.marketing_owner_name
        Row(p, owner, rac, ass) ==
            [ARTIST_DISPLAY_NAME |-> p.artist_display_name,
             PRODUCT_TITLE |-> p.product_title,
             WMI_IMPRINT_DESC |-> p.wmi_imprint_desc,
             MARKETING_OWNER_NAME |-> owner.marketing_owner_name,
             TEXT |-> rac.text,
             ISRC |-> p.product_id,
             P_CREDIT |-> ass.P_CREDIT,
             WW_REPERTOIRE_OWNER |-> ass.WW_REPERTOIRE_OWNER]
    IN  UNION { UNION { { Row(p, owner, rac, ass) :
                            owner \in {o \in OwnersOf(f) : Where(p, o)},
                            rac \in Credits(f),
                            ass \in AssetsOf(p) }
                        : f \in Facts(p) }
                : p \in m.DIM_PRODUCT }

----------------------------------------------------------------------------
(* RIGHTS_INFO *)

\* the soft-delete filter left out
NotDeletedDropped(r) == r.IS_DELETED \in {"N", "Y"}

\* r.IS_DELETED = 'N'
NotDeleted(r) == r.IS_DELETED = "N"

\* r.EFFECTIVE_TO_DATE > CURRENT_DATE() OR r.EFFECTIVE_TO_DATE IS NULL
\* (a comparison with NULL is not true)
NotExpired(r, d) ==
    \/ (r.EFFECTIVE_TO_DATE # NULL /\ r.EFFECTIVE_TO_DATE > d)
    \/ r.EFFECTIVE_TO_DATE = NULL

\* t.COUNTRY_LIST_SORTED LIKE '%{country_code}%'
TerritoryMatch(t, country_code) == Like(t.COUNTRY_LIST_SORTED, country_code)

\* the joined rows that pass the WHERE clause
RightsRows(q, rs, d) ==
    { x \in RPT_PRODUCT_COMPONENT \X rs \X RPT_TERRITORY :
        /\ x[2].PRODUCT_COMPONENT_ID = x[1].ID
        /\ x[3].TERRITORY_ID = x[2].TERRITORY_ID
        /\ x[1].GAID \in InList(q)
        /\ NotExpired(x[2], d)
        /\ NotDeleted(x[2])
        /\ TerritoryMatch(x[3], q.country_code) }

\* GROUP BY pc.GAID, r.RIGHT_TYPE, r.EFFECTIVE_TO_DATE, r.EFFECTIVE_FROM_DATE
GroupKey(x) ==
    <<x[1].GAID, x[2].RIGHT_TYPE, x[2].EFFECTIVE_TO_DATE,
      x[2].EFFECTIVE_FROM_DATE>>

\* one row per group, with MIN(t.COUNTRY_LIST_SORTED) over the group
RIGHTS_INFO(q, rs, d) ==
    LET rows == RightsRows(q, rs, d)
    IN  { [ISRC |-> k[1],
           COUNTRY_LIST_SORTED |->
               MinStr({x[3].COUNTRY_LIST_SORTED :
                          x \in {y \in rows : GroupKey(y) = k}}),
           RIGHT_TYPE |-> k[2],
           EFFECTIVE_TO_DATE |-> k[3],
           EFFECTIVE_FROM_DATE |-> k[4]] : k \in {GroupKey(x) : x \in rows} }

\* the two WHEN branches exchanged
PriorityDistributionFirst(right_type) ==
    CASE right_type = "Distribution" -> 1
      [] right_type = "Master" -> 2
      [] OTHER -> 3

\* a fourth rank, Publishing before any other remaining type
PriorityFourRanks(right_type) ==
    CASE right_type = "Master" -> 1
      [] right_type = "Distribution" -> 2
      [] right_type = "Publishing" -> 3
      [] OTHER -> 4

\* CASE r.RIGHT_TYPE WHEN 'Master' THEN 1 WHEN 'Distribution' THEN 2 ELSE 3
Priority(right_type) ==
    CASE right_type = "Master" -> 1
      [] right_type = "Distribution" -> 2
      [] OTHER -> 3

\* r.EFFECTIVE_FROM_DATE DESC in place of ASC
RankBeforeLatestFirst(a, b) ==
    \/ Priority(a.RIGHT_TYPE) < Priority(b.RIGHT_TYPE)
    \/ /\ Priority(a.RIGHT_TYPE) = Priority(b.RIGHT_TYPE)
       /\ a.EFFECTIVE_FROM_DATE > b.EFFECTIVE_FROM_DATE

\* ORDER BY the CASE value, then r.EFFECTIVE_FROM_DATE ASC: a sorts
\* strictly before b
RankBefore(a, b) ==
    \/ Priority(a.RIGHT_TYPE) < Priority(b.RIGHT_TYPE)
    \/ /\ Priority(a.RIGHT_TYPE) = Priority(b.RIGHT_TYPE)
       /\ a.EFFECTIVE_FROM_DATE < b.EFFECTIVE_FROM_DATE

\* the rows of partition isrc that ROW_NUMBER() may number 1: rows with
\* equal sort keys are numbered in an order the warehouse is free to choose
FirstRows(rows, isrc) ==
    { r \in rows :
        /\ r.ISRC = isrc
        /\ \A o \in rows : o.ISRC = isrc => ~RankBefore(o, r) }

\* PARTITION BY pc.GAID ... WHERE r.rn = 1: every way to keep one first
\* row per partition
RECURSIVE RowNumberOne(_, _)
RowNumberOne(rows, isrcs) ==
    IF isrcs = {} THEN {{}}
    ELSE LET g == CHOOSE x \in isrcs : TRUE
         IN  { c \cup {r} : c \in RowNumberOne(rows, isrcs \ {g}),
                            r \in FirstRows(rows, g) }

\* SELECT DISTINCT b.*, r.... FROM BASE_PRODUCT b JOIN RIGHTS_INFO r
\* ON b.ISRC = r.ISRC WHERE r.rn = 1.  ORDER BY b.ISRC fixes the order of
\* the rows only; the rows themselves are kept as a set.
FinalSelect(base, first) ==
    { [ARTIST_DISPLAY_NAME |-> x[1].ARTIST_DISPLAY_NAME,
       PRODUCT_TITLE |-> x[1].PRODUCT_TITLE,
       WMI_IMPRINT_DESC |-> x[1].WMI_IMPRINT_DESC,
       MARKETING_OWNER_NAME |-> x[1].MARKETING_OWNER_NAME,
       TEXT |-> x[1].TEXT,
       ISRC |-> x[1].ISRC,
       P_CREDIT |-> x[1].P_CREDIT,
       WW_REPERTOIRE_OWNER |-> x[1].WW_REPERTOIRE_OWNER,
       RIGHT_TYPE |-> x[2].RIGHT_TYPE,
       EFFECTIVE_TO_DATE |-> x[2].EFFECTIVE_TO_DATE,
       EFFECTIVE_FROM_DATE |-> x[2].EFFECTIVE_FROM_DATE,
       TRACK_RIGHTS_TERRITORIES |-> x[2].COUNTRY_LIST_SORTED] :
      x \in {y \in base \X first : y[1].ISRC = y[2].ISRC} }

\* cur.execute(query); cur.fetchall(): the DataFrames the warehouse may
\* return for the query on the tables rs, m at date d
Execute(q, rs, m, d) ==
    LET info == RIGHTS_INFO(q, rs, d)
    IN  { FinalSelect(BASE_PRODUCT(q, m), first) :
            first \in RowNumberOne(info, {r.ISRC : r \in info}) }

----------------------------------------------------------------------------
(* run_query and process_file *)

EmptyCache == [k \in {} |-> {}]

\* @st.cache_data run_query(query): <<the DataFrame returned, the cache
\* afterwards>>; the stored DataFrame is returned without a new execution
run_query(q, c, rs, m, d) ==
    IF q \in DOMAIN c
    THEN { <<c[q], c>> }
    ELSE { <<fetched, [k \in DOMAIN c \cup {q} |->
                          IF k = q THEN fetched ELSE c[k]]>> :
             fetched \in Execute(q, rs, m, d) }

\* df[isrc_column].astype(str).str.strip(), the non-empty values, .unique()
isrc_list(column) ==
    unique(SelectSeq([i \in DOMAIN column |-> strip(column[i])],
                     LAMBDA x : x # <<>>))

\* lambda x: None if x is None or pd.Timestamp(x).year > 2262 else x
ToDatetime(x) == IF x = NULL \/ x > 2262 THEN NULL ELSE x

ConvertTimestamps(frame) ==
    { [row EXCEPT !.EFFECTIVE_TO_DATE = ToDatetime(@),
                  !.EFFECTIVE_FROM_DATE = ToDatetime(@)] : row \in frame }

\* results_df.groupby(['RIGHT_TYPE']).size()
summary_df(frame) ==
    [ty \in {row.RIGHT_TYPE : row \in frame} |->
        Cardinality({row \in frame : row.RIGHT_TYPE = ty})]

\* what process_file may show for the uploaded column and country on the
\* tables rs, m at date d when nothing is cached
Displayed(column, country_code, rs, m, d) ==
    { ConvertTimestamps(fetched) :
        fetched \in Execute(generate_query(isrc_list(column), country_code),
                            rs, m, d) }

\* One click on a "Process" button: process_file on the uploaded column.
\* The script reads the upload again on every run, so df stays the upload.
ProcessFile ==
    /\ clicks < MaxClicks
    /\ clicks' = clicks + 1
    /\ LET list == isrc_list(df)
           q == generate_query(list, selected_country_code)
       IN  \/ /\ clean_isrcs(list) = <<>>
              /\ status' = "error"
              /\ results_df' = {}
              /\ cache' = cache
           \/ /\ clean_isrcs(list) # <<>>
              /\ \E out \in run_query(q, cache, rights, meta, today) :
                    /\ cache' = out[2]
                    /\ results_df' = ConvertTimestamps(out[1])
                    /\ status' = IF out[1] = {} THEN "warning" ELSE "results"
    /\ UNCHANGED <<rights, meta, today, df, selected_country_code>>

\* st.cache_data keeps its entries until they are cleared (the "Clear
\* cache" command of the application menu); the page stays as it is
ClearCache ==
    /\ cache # EmptyCache
    /\ cache' = EmptyCache
    /\ UNCHANGED <<rights, meta, today, df, selected_country_code,
                   results_df, status, clicks>>

----------------------------------------------------------------------------
(* The warehouse changes under the application *)

\* a grant is loaded into RPT_PRODUCT_COMPONENT_RIGHT
AddGrant(g) ==
    /\ g \notin rights
    /\ Cardinality(rights) < MaxGrants
    /\ rights' = rights \cup {g}
    /\ UNCHANGED <<meta, today, df, selected_country_code, cache, results_df,
                   status, clicks>>

\* a grant is soft-deleted: IS_DELETED becomes 'Y'
SoftDelete(g) ==
    /\ g \in rights
    /\ g.IS_DELETED = "N"
    /\ rights' = (rights \ {g}) \cup {[g EXCEPT !.IS_DELETED = "Y"]}
    /\ UNCHANGED <<meta, today, df, selected_country_code, cache, results_df,
                   status, clicks>>

\* CURRENT_DATE() moves on by a day
Tick ==
    /\ today < MaxDay
    /\ today' = today + 1
    /\ UNCHANGED <<rights, meta, df, selected_country_code, cache, results_df,
                   status, clicks>>

----------------------------------------------------------------------------
(* Specifications *)

Session0 ==
    /\ cache = EmptyCache
    /\ results_df = {}
    /\ status = "idle"
    /\ clicks = 0

\* one snapshot of the warehouse, queried by one session
Init ==
    /\ rights \in SubsetsUpTo(GrantUniverse, MaxGrants)
    /\ meta \in MetaSnapshots
    /\ today \in 1..MaxDay
    /\ df \in Uploads
    /\ selected_country_code \in CountryCodes
    /\ Session0

Next == ProcessFile \/ ClearCache

Spec == Init /\ [][Next]_vars

\* the warehouse is loaded and ages while the session queries it
InitLive ==
    /\ rights = {}
    /\ meta = MetaFull
    /\ today = 1
    /\ df \in Uploads
    /\ selected_country_code \in CountryCodes
    /\ Session0

NextLive ==
    \/ ProcessFile
    \/ ClearCache
    \/ \E g \in GrantUniverse : AddGrant(g)
    \/ \E g \in rights : SoftDelete(g)
    \/ Tick

SpecLive == InitLive /\ [][NextLive]_vars

----------------------------------------------------------------------------
(* The vocabulary of the claims: a grant as the rights catalog describes   *)
(* it, with its territories as a set of codes                              *)

GaidOf(r) ==
    (CHOOSE pc \in RPT_PRODUCT_COMPONENT : pc.ID = r.PRODUCT_COMPONENT_ID).GAID

TerritoryListOf(r) ==
    (CHOOSE t \in RPT_TERRITORY :
        t.TERRITORY_ID = r.TERRITORY_ID).COUNTRY_LIST_SORTED

TerritorySet(list) == Range(Split(list, <<",">>))

InForce(r, as_of) ==
    /\ r.EFFECTIVE_FROM_DATE <= as_of
    /\ (r.EFFECTIVE_TO_DATE = NULL \/ r.EFFECTIVE_TO_DATE > as_of)

\* the candidate grants of a track for the current query and snapshot
CandidatesOf(isrc) ==
    { r \in rights :
        /\ GaidOf(r) = isrc
        /\ r.IS_DELETED = "N"
        /\ InForce(r, today)
        /\ selected_country_code \in TerritorySet(TerritoryListOf(r)) }

RowsOf(isrc) == { row \in results_df : row.ISRC = isrc }

\* every grant of the snapshot is a candidate for the current query, so
\* that no grant is there for the filter to reject
AllCandidates == \A r \in rights : r \in CandidatesOf(GaidOf(r))

----------------------------------------------------------------------------
(* C1: when a track has a candidate grant of type Master and one of type   *)
(* Distribution, every row shown for the track has right type Master,      *)
(* whatever the effective_from dates of the two grants are.                *)
C1_MasterBeatsDistribution ==
    \A row \in results_df :
        ( /\ \E r \in CandidatesOf(row.ISRC) : r.RIGHT_TYPE = "Master"
          /\ \E r \in CandidatesOf(row.ISRC) : r.RIGHT_TYPE = "Distribution" )
        => row.RIGHT_TYPE = "Master"

\* a Master row is shown although a Distribution candidate started earlier
C1_Witness ==
    \E row \in results_df :
        /\ row.RIGHT_TYPE = "Master"
        /\ \E m, d \in CandidatesOf(row.ISRC) :
              /\ m.RIGHT_TYPE = "Master"
              /\ d.RIGHT_TYPE = "Distribution"
              /\ d.EFFECTIVE_FROM_DATE < m.EFFECTIVE_FROM_DATE
              /\ row.EFFECTIVE_FROM_DATE = m.EFFECTIVE_FROM_DATE

(* C2: every row shown carries territories that contain the queried code   *)
(* as a member of the set of codes; a grant whose set of codes does not    *)
(* contain the queried code never reaches a row.  Stated for the grants    *)
(* that are not deleted and in force, which only their territories can     *)
(* exclude.                                                                *)
C2_ExactTerritoryMembership ==
    (\A r \in rights : r.IS_DELETED = "N" /\ InForce(r, today))
    => \A row \in results_df :
           selected_country_code
               \in TerritorySet(row.TRACK_RIGHTS_TERRITORIES)

(* C3: the grant behind every row shown has effective_from <= as_of and    *)
(* effective_to absent or > as_of.  Stated for the grants that are not     *)
(* deleted and cover the queried territory, which only their dates can     *)
(* exclude.                                                                *)
C3_ValidityWindow ==
    (\A r \in rights :
        /\ r.IS_DELETED = "N"
        /\ selected_country_code \in TerritorySet(TerritoryListOf(r)))
    => \A row \in results_df :
           /\ row.EFFECTIVE_FROM_DATE <= today
           /\ (row.EFFECTIVE_TO_DATE = NULL \/ row.EFFECTIVE_TO_DATE > today)

\* the grants that have the type and the dates of a row
Backing(row) ==
    { r \in rights :
        /\ GaidOf(r) = row.ISRC
        /\ r.RIGHT_TYPE = row.RIGHT_TYPE
        /\ ToDatetime(r.EFFECTIVE_FROM_DATE) = row.EFFECTIVE_FROM_DATE
        /\ ToDatetime(r.EFFECTIVE_TO_DATE) = row.EFFECTIVE_TO_DATE }

(* C4: a deleted grant is never resolved and gives nothing to a row: the   *)
(* type, the dates and the territories of every row shown are those of a   *)
(* grant of the track that is not deleted, and a track whose grants are    *)
(* all deleted has no row.                                                 *)
C4_DeletedNeverResolved ==
    /\ \A row \in results_df :
          \E r \in Backing(row) :
              /\ r.IS_DELETED = "N"
              /\ TerritoryListOf(r) = row.TRACK_RIGHTS_TERRITORIES
    /\ \A isrc \in {ISRC_A, ISRC_B} :
          (\A r \in rights : GaidOf(r) = isrc => r.IS_DELETED = "Y")
          => RowsOf(isrc) = {}

\* a row is shown for a track that also has a deleted grant which would
\* otherwise have ranked before the row's grant
C4_Witness ==
    \E row \in results_df : \E r \in rights :
        /\ GaidOf(r) = row.ISRC
        /\ r.IS_DELETED = "Y"
        /\ InForce(r, today)
        /\ selected_country_code \in TerritorySet(TerritoryListOf(r))
        /\ Priority(r.RIGHT_TYPE) < Priority(row.RIGHT_TYPE)

(* C5: no candidate grant of the track with the right type of the row      *)
(* shown has a strictly earlier effective_from than the row.               *)
C5_EarliestOfType ==
    \A row \in results_df :
        \A r \in CandidatesOf(row.ISRC) :
            r.RIGHT_TYPE = row.RIGHT_TYPE
            => row.EFFECTIVE_FROM_DATE <= r.EFFECTIVE_FROM_DATE

\* two candidates of the row's type with different start dates, the
\* earlier one resolved
C5_Witness ==
    \E row \in results_df : \E r1, r2 \in CandidatesOf(row.ISRC) :
        /\ r1.RIGHT_TYPE = row.RIGHT_TYPE
        /\ r2.RIGHT_TYPE = row.RIGHT_TYPE
        /\ r1.EFFECTIVE_FROM_DATE < r2.EFFECTIVE_FROM_DATE
        /\ row.EFFECTIVE_FROM_DATE = r1.EFFECTIVE_FROM_DATE

(* C6: a second run of the same query on the same snapshot shows what the  *)
(* first run showed.  Stated for snapshots in which every grant is a       *)
(* candidate.                                                              *)
C6_Deterministic ==
    [][(clicks' # clicks /\ status = "results" /\ AllCandidates)
          => (status' = status /\ results_df' = results_df)]_vars

(* C7: the normalized identifier list has no duplicates and no two rows    *)
(* shown have the same track identifier.  The rows are those of snapshots  *)
(* in which every grant is a candidate.                                    *)
C7_OneRowPerIdentifier ==
    /\ \A i, j \in DOMAIN isrc_list(df) :
          isrc_list(df)[i] = isrc_list(df)[j] => i = j
    /\ AllCandidates
       => \A r1, r2 \in results_df : r1.ISRC = r2.ISRC => r1 = r2

(* C8: every queried track that has a candidate grant, hence a resolved    *)
(* right, has a row in the result.                                         *)
C8_NoDroppedRight ==
    status \in {"results", "warning"}
    => \A isrc \in Range(isrc_list(df)) :
           CandidatesOf(isrc) # {} => RowsOf(isrc) # {}

(* C9: what a click shows is a result of the query on the tables and the   *)
(* date current at the click, whatever was queried before.  Stated for     *)
(* clicks on snapshots in which every grant is a candidate.                *)
C9_NoCrossCallState ==
    [][(clicks' # clicks /\ status' \in {"results", "warning"}
                         /\ AllCandidates')
          => results_df' \in Displayed(df', selected_country_code', rights',
                                       meta', today')]_vars

\* the ranking the claim states
StatedPriority(right_type) ==
    CASE right_type = "Master" -> 1
      [] right_type = "Distribution" -> 2
      [] right_type = "Publishing" -> 3
      [] OTHER -> 4

(* C10, as stated: the right type of every row shown has the best rank,    *)
(* with Master=1, Distribution=2, Publishing=3, Other=4, among the         *)
(* candidates of the track.  Stated for snapshots in which every grant is  *)
(* a candidate and no two grants start on the same date.                   *)
C10_FourRanks ==
    ( /\ AllCandidates
      /\ \A r1, r2 \in rights :
            r1.EFFECTIVE_FROM_DATE = r2.EFFECTIVE_FROM_DATE => r1 = r2 )
    => \A row \in results_df : \A r \in CandidatesOf(row.ISRC) :
           StatedPriority(row.RIGHT_TYPE) <= StatedPriority(r.RIGHT_TYPE)

\* the three classes of right types
PriorityClass(right_type) ==
    IF right_type = "Master" THEN 1
    ELSE IF right_type = "Distribution" THEN 2 ELSE 3

(* C10, amended: with the classes Master=1, Distribution=2, any other      *)
(* type=3, the row shown has the best class among the candidates of the    *)
(* track, and no candidate of that class started strictly earlier:         *)
(* Publishing does not outrank another type of class 3.                    *)
C10_ThreeClasses ==
    \A row \in results_df : \A r \in CandidatesOf(row.ISRC) :
        /\ PriorityClass(row.RIGHT_TYPE) <= PriorityClass(r.RIGHT_TYPE)
        /\ PriorityClass(row.RIGHT_TYPE) = PriorityClass(r.RIGHT_TYPE)
           => row.EFFECTIVE_FROM_DATE <= r.EFFECTIVE_FROM_DATE

\* a Publishing candidate and an Other candidate that started earlier:
\* the Other grant is shown
C10_Witness ==
    \E row \in results_df : \E p, o \in CandidatesOf(row.ISRC) :
        /\ p.RIGHT_TYPE = "Publishing"
        /\ o.RIGHT_TYPE = "Other"
        /\ o.EFFECTIVE_FROM_DATE < p.EFFECTIVE_FROM_DATE
        /\ row.RIGHT_TYPE = "Other"

====
